---- MODULE Spec2Model ----
(***************************************************************************)
(* byte-board-service: the authentication core.                            *)
(*   internal/auth/jwt.go        TokenProvider (CreateToken, ValidateToken, *)
(*                               ParseToken)                                *)
(*   internal/middleware (auth)  JWTAuth, OptionalJWTAuth, RequireRole      *)
(*                                                                         *)
(* Time is counted in clock ticks; a second has TicksPerSec ticks, so that  *)
(* time.Now() can fall between two whole seconds while the NumericDate      *)
(* fields of a token (iat, nbf, exp) are whole seconds.                     *)
(*                                                                         *)
(* A string is a sequence of atoms: a word, a space, a tab, or a compact    *)
(* JWT (three dot-separated segments).  A JWT atom carries the text of its  *)
(* header and claims segments (as the values they decode to; the encoding   *)
(* of these two segments is injective on what CreateToken writes) and its   *)
(* signature segment.  The signature segment is a base64url text: `mac` is  *)
(* the byte string it decodes to and `spelling` tells which of the texts    *)
(* that decode to these bytes it is (0 is the canonical one written by the  *)
(* encoder, other values have non-zero unused bits in the last character).  *)
(***************************************************************************)
EXTENDS Integers, Sequences, FiniteSets, TLC

\* ---------------------------------------------------------------- bounds
TicksPerSec == 2
SecondsPerHour == 1
MaxHours == 2
MaxCreate == 1
MaxSpelling == 1
MaxProcs == 2
MaxId == 2
MaxHdrLen == 5
MaxSecretLen == 73

MaxTime == MaxCreate + (MaxHours * SecondsPerHour + 2) * TicksPerSec

\* ------------------------------------------------------------ vocabulary
SecretKey == "secret"
AttackerKey == "guess"

Usernames == {"alice", ""}
OtherUsernames == {"mallory"}
Roles == {"user", "admin", ""}

HMACAlgs == {"HS256", "HS384", "HS512"}
Algs == HMACAlgs \cup {"RS256", "none"}

Sec(n) == n * TicksPerSec
Hours(h) == Sec(h * SecondsPerHour)

\* jwt.NewNumericDate: the time truncated to whole seconds
NewNumericDate(t) == t \div TicksPerSec

\* ----------------------------------------------------------------- atoms
Word(w) == [kind |-> "word", text |-> w]
SP == [kind |-> "space", text |-> " "]
TAB == [kind |-> "space", text |-> "\t"]
BearerWord == Word("Bearer")
LowerBearerWord == Word("bearer")

NoClaims == [username |-> "", role |-> "", sub |-> "", iat |-> 0, exp |-> 0, nbf |-> 0]

NoMac == [alg |-> "", key |-> "", header |-> [alg |-> ""], claims |-> NoClaims]

\* HMAC of the signing input (header segment "." claims segment) under key
HMAC(alg, key, header, claims) ==
    [alg |-> alg, key |-> key, header |-> header, claims |-> claims]

SigSegment(mac, sp) == [decodable |-> TRUE, mac |-> mac, spelling |-> sp]
BadSigSegment == [decodable |-> FALSE, mac |-> NoMac, spelling |-> 0]

Jwt(header, claims, sig) ==
    [kind |-> "jwt", header |-> header, claims |-> claims, sig |-> sig]

\* token.SignedString: header.claims.signature, canonical base64url
SignedString(alg, key, claims) ==
    Jwt([alg |-> alg], claims,
        SigSegment(HMAC(alg, key, [alg |-> alg], claims), 0))

\* ----------------------------------------------------------- Token Codec
CreateTokenIssuedAtExpiry(username, role, t, expirationHours) ==
    LET expirationTime == t + Hours(expirationHours)
        claims == [username |-> username,
                   role |-> role,
                   sub |-> username,
                   iat |-> NewNumericDate(expirationTime),
                   exp |-> NewNumericDate(expirationTime),
                   nbf |-> NewNumericDate(t)]
    IN <<SignedString("HS512", SecretKey, claims)>>

CreateTokenNoLifetime(username, role, t, expirationHours) ==
    LET claims == [username |-> username,
                   role |-> role,
                   sub |-> username,
                   iat |-> NewNumericDate(t),
                   exp |-> NewNumericDate(t),
                   nbf |-> NewNumericDate(t)]
    IN <<SignedString("HS512", SecretKey, claims)>>

CreateTokenDoubleLifetime(username, role, t, expirationHours) ==
    LET expirationTime == t + Hours(2 * expirationHours)
        claims == [username |-> username,
                   role |-> role,
                   sub |-> username,
                   iat |-> NewNumericDate(t),
                   exp |-> NewNumericDate(expirationTime),
                   nbf |-> NewNumericDate(t)]
    IN <<SignedString("HS512", SecretKey, claims)>>

CreateToken(username, role, t, expirationHours) ==
    LET expirationTime == t + Hours(expirationHours)
        claims == [username |-> username,
                   role |-> role,
                   sub |-> username,
                   iat |-> NewNumericDate(t),
                   exp |-> NewNumericDate(expirationTime),
                   nbf |-> NewNumericDate(t)]
    IN <<SignedString("HS512", SecretKey, claims)>>

\* The key function handed to jwt.ParseWithClaims
KeyfuncAccepts(header) == header.alg \in HMACAlgs

ValidateClaimsInclusive(claims, t) ==
    (IF t <= Sec(claims.exp) THEN {} ELSE {"ErrTokenExpired"})
    \cup (IF t >= Sec(claims.nbf) THEN {} ELSE {"ErrTokenNotValidYet"})

\* jwt.Validator: exp and nbf of the registered claims against the clock
ValidateClaims(claims, t) ==
    (IF t < Sec(claims.exp) THEN {} ELSE {"ErrTokenExpired"})
    \cup (IF t >= Sec(claims.nbf) THEN {} ELSE {"ErrTokenNotValidYet"})

ParseWithClaimsUnverified(tokenString, t) ==
    IF Len(tokenString) # 1 \/ tokenString[1].kind # "jwt"
    THEN {"ErrTokenMalformed"}
    ELSE LET tok == tokenString[1] IN
         IF ~KeyfuncAccepts(tok.header)
         THEN {"ErrTokenUnverifiable"}
         ELSE LET errs == ValidateClaims(tok.claims, t) IN
              IF errs # {} THEN errs \cup {"ErrTokenInvalidClaims"} ELSE {}

\* jwt.ParseWithClaims(tokenString, &Claims{}, keyfunc) at clock reading t:
\* the set of errors the returned error matches (errors.Is); {} is success.
ParseWithClaims(tokenString, t) ==
    IF Len(tokenString) # 1 \/ tokenString[1].kind # "jwt"
    THEN {"ErrTokenMalformed"}
    ELSE LET tok == tokenString[1] IN
         IF ~KeyfuncAccepts(tok.header)
         THEN {"ErrTokenUnverifiable"}
         ELSE IF ~tok.sig.decodable
         THEN {"ErrTokenMalformed"}
         ELSE IF tok.sig.mac # HMAC(tok.header.alg, SecretKey, tok.header, tok.claims)
         THEN {"ErrTokenSignatureInvalid", "ErrSignatureInvalid"}
         ELSE LET errs == ValidateClaims(tok.claims, t) IN
              IF errs # {} THEN errs \cup {"ErrTokenInvalidClaims"} ELSE {}

ValidateTokenNoSignatureCase(tokenString, t) ==
    LET err == ParseWithClaims(tokenString, t) IN
    IF err # {}
    THEN IF "ErrTokenExpired" \in err THEN "ErrExpiredToken"
         ELSE "ErrInvalidToken"
    ELSE "nil"

ValidateToken(tokenString, t) ==
    LET err == ParseWithClaims(tokenString, t) IN
    IF err # {}
    THEN IF "ErrTokenExpired" \in err THEN "ErrExpiredToken"
         ELSE IF "ErrSignatureInvalid" \in err THEN "jwt.ErrSignatureInvalid"
         ELSE "ErrInvalidToken"
    ELSE "nil"

ParseTokenNoUsernameCheck(tokenString, t) ==
    LET err == ParseWithClaims(tokenString, t) IN
    IF err # {}
    THEN [err |-> "failed to parse the token", claims |-> NoClaims]
    ELSE [err |-> "nil", claims |-> tokenString[1].claims]

ParseToken(tokenString, t) ==
    LET err == ParseWithClaims(tokenString, t) IN
    IF err # {}
    THEN [err |-> "failed to parse the token", claims |-> NoClaims]
    ELSE IF tokenString[1].claims.username = ""
    THEN [err |-> "ErrMissingClaims", claims |-> NoClaims]
    ELSE [err |-> "nil", claims |-> tokenString[1].claims]

\* ----------------------------------------------------------------- state
VARIABLES now, hours, held, last, users, nextId, inflight, board

vars == <<now, hours, held, last, users, nextId, inflight, board>>

\* The users table, its SERIAL counter, the calls in progress, and the posts
\* and comments tables with their SERIAL counters
store == <<users, nextId, inflight, board>>

EmptyBoard == [posts |-> {}, comments |-> {}, nextPostId |-> 1, nextCommentId |-> 1]

Procs == 1..MaxProcs
IdleCall == [pc |-> "idle"]

NoToken == [issued |-> FALSE, token |-> <<>>, username |-> "", role |-> "", at |-> 0]
Idle == [op |-> "none"]

Init ==
    /\ now = 0
    /\ hours \in 1..MaxHours
    /\ held = NoToken
    /\ last = Idle
    /\ users = {}
    /\ nextId = 1
    /\ inflight = [p \in Procs |-> IdleCall]
    /\ board = EmptyBoard

\* The clock advances between calls; `last` describes the call that was
\* answered at the current clock reading
Tick ==
    /\ now < MaxTime
    /\ now' = now + 1
    /\ last' = Idle
    /\ UNCHANGED <<hours, held, store>>

CreateTokenCall(username, role) ==
    /\ now <= MaxCreate
    /\ held' = [issued |-> TRUE,
                token |-> CreateToken(username, role, now, hours),
                username |-> username, role |-> role, at |-> now]
    /\ last' = [op |-> "CreateToken"]
    /\ UNCHANGED <<now, hours, store>>

\* ------------------------------------------- strings presented by callers
\* Claims an attacker writes into a copy of a token
TamperedClaims(claims) ==
    {[claims EXCEPT !.username = u, !.sub = u] :
        u \in (Usernames \cup OtherUsernames) \ {claims.username}}
    \cup {[claims EXCEPT !.role = r] : r \in Roles \ {claims.role}}
    \cup {[claims EXCEPT !.exp = @ + 1]}

\* Copies of tok with exactly one segment changed, made without the secret
HeaderMutations(tok) ==
    {Jwt([alg |-> a], tok.claims, tok.sig) : a \in Algs \ {tok.header.alg}}

ClaimsMutations(tok) ==
    {Jwt(tok.header, c, tok.sig) : c \in TamperedClaims(tok.claims)}

SignatureMutations(tok) ==
    {Jwt(tok.header, tok.claims, SigSegment(tok.sig.mac, sp)) : sp \in 1..MaxSpelling}
    \cup {Jwt(tok.header, tok.claims, BadSigSegment)}
    \cup {Jwt(tok.header, tok.claims,
              SigSegment(HMAC(tok.header.alg, AttackerKey, tok.header, tok.claims), 0))}

\* Tokens with changed claims signed under a key the attacker made up
Forgeries(tok) ==
    {Jwt(tok.header, c, SigSegment(HMAC(tok.header.alg, AttackerKey, tok.header, c), 0)) :
        c \in TamperedClaims(tok.claims)}

Mutations(tok) ==
    HeaderMutations(tok) \cup ClaimsMutations(tok) \cup SignatureMutations(tok)

\* Tokens a holder of the shared secret can sign
SignedVariants(tok) ==
    {SignedString(a, SecretKey, c) :
        a \in HMACAlgs,
        c \in {tok.claims,
               [tok.claims EXCEPT !.nbf = @ + 1],
               [tok.claims EXCEPT !.username = "", !.sub = ""]}}

NotAToken == {<<>>, <<Word("garbage")>>}

PresentedStrings ==
    IF held.issued
    THEN LET tok == held.token[1] IN
         {<<x>> : x \in {tok} \cup Mutations(tok) \cup Forgeries(tok) \cup SignedVariants(tok)}
         \cup {<<tok, SP, tok>>} \cup NotAToken
    ELSE NotAToken

ValidateTokenCall(tokenString) ==
    /\ last' = [op |-> "ValidateToken", tokenString |-> tokenString, at |-> now,
                err |-> ValidateToken(tokenString, now)]
    /\ UNCHANGED <<now, hours, held, store>>

ParseTokenCall(tokenString) ==
    /\ last' = [op |-> "ParseToken", tokenString |-> tokenString, at |-> now,
                res |-> ParseToken(tokenString, now)]
    /\ UNCHANGED <<now, hours, held, store>>

\* ------------------------------------------------ Authentication Pipeline
\* strings.SplitN(authHeader, " ", 2)
FirstSpace(str) ==
    IF \E i \in 1..Len(str) : str[i] = SP
    THEN CHOOSE i \in 1..Len(str) : str[i] = SP /\ \A j \in 1..(i - 1) : str[j] # SP
    ELSE 0

SplitN2(str) ==
    LET i == FirstSpace(str) IN
    IF i = 0 THEN <<str>>
    ELSE <<SubSeq(str, 1, i - 1), SubSeq(str, i + 1, Len(str))>>

\* strings.TrimSpace
RECURSIVE TrimLeft(_)
TrimLeft(str) ==
    IF str # <<>> /\ Head(str).kind = "space" THEN TrimLeft(Tail(str)) ELSE str

RECURSIVE TrimRight(_)
TrimRight(str) ==
    IF str # <<>> /\ str[Len(str)].kind = "space"
    THEN TrimRight(SubSeq(str, 1, Len(str) - 1))
    ELSE str

TrimSpace(str) == TrimRight(TrimLeft(str))

extractBearerTokenUntrimmed(authHeader) ==
    LET parts == SplitN2(authHeader) IN
    IF Len(parts) # 2 THEN [err |-> "ErrInvalidToken", token |-> <<>>]
    ELSE IF parts[1] # <<BearerWord>> THEN [err |-> "ErrInvalidToken", token |-> <<>>]
    ELSE IF parts[2] = <<>> THEN [err |-> "ErrInvalidToken", token |-> <<>>]
    ELSE [err |-> "nil", token |-> parts[2]]

extractBearerToken(authHeader) ==
    LET parts == SplitN2(authHeader) IN
    IF Len(parts) # 2 THEN [err |-> "ErrInvalidToken", token |-> <<>>]
    ELSE IF parts[1] # <<BearerWord>> THEN [err |-> "ErrInvalidToken", token |-> <<>>]
    ELSE LET token == TrimSpace(parts[2]) IN
         IF token = <<>> THEN [err |-> "ErrInvalidToken", token |-> <<>>]
         ELSE [err |-> "nil", token |-> token]

\* The request context: a map from context keys to values
EmptyContext == [k \in {} |-> ""]
WithIdentity(username, role) == [username |-> username, role |-> role]

GetUsername(ctx) == IF "username" \in DOMAIN ctx THEN ctx["username"] ELSE ""
GetRole(ctx) == IF "role" \in DOMAIN ctx THEN ctx["role"] ELSE ""

Rejected(status, body) ==
    [status |-> status, body |-> body, next |-> 0, ctx |-> EmptyContext]
Proceed(ctx) ==
    [status |-> 200, body |-> "", next |-> 1, ctx |-> ctx]

JWTAuthFailOpen(authHeader, t1, t2) ==
    IF authHeader = <<>>
    THEN Proceed(EmptyContext)
    ELSE LET ex == extractBearerToken(authHeader) IN
         IF ex.err # "nil"
         THEN Rejected(401, "Unauthorized: Invalid token format")
         ELSE IF ValidateToken(ex.token, t1) # "nil"
         THEN Rejected(401, "Unauthorized: Invalid or expired token")
         ELSE LET parsed == ParseToken(ex.token, t2) IN
              IF parsed.err # "nil"
              THEN Rejected(401, "Unauthorized: Invalid token claims")
              ELSE Proceed(WithIdentity(parsed.claims.username, parsed.claims.role))

\* JWTAuth: t1 is the clock reading inside ValidateToken, t2 inside ParseToken
JWTAuth(authHeader, t1, t2) ==
    IF authHeader = <<>>
    THEN Rejected(401, "Unauthorized: Invalid token format")
    ELSE LET ex == extractBearerToken(authHeader) IN
         IF ex.err # "nil"
         THEN Rejected(401, "Unauthorized: Invalid token format")
         ELSE IF ValidateToken(ex.token, t1) # "nil"
         THEN Rejected(401, "Unauthorized: Invalid or expired token")
         ELSE LET parsed == ParseToken(ex.token, t2) IN
              IF parsed.err # "nil"
              THEN Rejected(401, "Unauthorized: Invalid token claims")
              ELSE Proceed(WithIdentity(parsed.claims.username, parsed.claims.role))

OptionalJWTAuthRejecting(authHeader, t1, t2) ==
    IF authHeader = <<>>
    THEN Proceed(EmptyContext)
    ELSE LET ex == extractBearerToken(authHeader) IN
         IF ex.err # "nil"
         THEN Proceed(EmptyContext)
         ELSE IF ValidateToken(ex.token, t1) # "nil"
         THEN Rejected(401, "Unauthorized: Invalid or expired token")
         ELSE LET parsed == ParseToken(ex.token, t2) IN
              IF parsed.err # "nil"
              THEN Proceed(EmptyContext)
              ELSE Proceed(WithIdentity(parsed.claims.username, parsed.claims.role))

OptionalJWTAuth(authHeader, t1, t2) ==
    IF authHeader = <<>>
    THEN Proceed(EmptyContext)
    ELSE LET ex == extractBearerToken(authHeader) IN
         IF ex.err # "nil"
         THEN Proceed(EmptyContext)
         ELSE IF ValidateToken(ex.token, t1) # "nil"
         THEN Proceed(EmptyContext)
         ELSE LET parsed == ParseToken(ex.token, t2) IN
              IF parsed.err # "nil"
              THEN Proceed(EmptyContext)
              ELSE Proceed(WithIdentity(parsed.claims.username, parsed.claims.role))

\* ------------------------------------------------------ Authorization Gate
RequireRoleAnyRole(requiredRole, ctx) ==
    LET role == GetRole(ctx) IN
    IF role = ""
    THEN Rejected(403, "Forbidden: No role information")
    ELSE Proceed(ctx)

RequireRole(requiredRole, ctx) ==
    LET role == GetRole(ctx) IN
    IF role = ""
    THEN Rejected(403, "Forbidden: No role information")
    ELSE IF role # requiredRole
    THEN Rejected(403, "Forbidden: Insufficient permissions")
    ELSE Proceed(ctx)

\* Roles a route can be gated on (setupRouter gates the admin routes on "admin")
GateRoles == {"admin", "user"}

\* Token strings a client puts into the Authorization header
HeaderTokens ==
    IF held.issued
    THEN LET tok == held.token[1] IN
         {<<tok>>,
          <<Jwt(tok.header, [tok.claims EXCEPT !.role = "admin"], tok.sig)>>,
          <<Jwt(tok.header, tok.claims, SigSegment(tok.sig.mac, MaxSpelling))>>,
          <<SignedString("HS256", SecretKey, tok.claims)>>,
          <<SignedString("HS512", SecretKey, [tok.claims EXCEPT !.nbf = @ + 1])>>,
          <<Word("garbage")>>}
    ELSE {<<Word("garbage")>>}

\* Authorization header values: no header, malformed ones, and well-formed
\* ones around each token string
HeaderShapes(tk) ==
    {<<LowerBearerWord, SP>> \o tk,
     <<BearerWord>> \o tk,
     <<BearerWord, SP, SP>> \o tk \o <<TAB>>,
     <<BearerWord, SP>> \o tk \o <<SP>> \o tk,
     tk}

Headers ==
    {<<>>, <<BearerWord>>, <<BearerWord, SP>>, <<BearerWord, SP, TAB>>}
    \cup {<<BearerWord, SP>> \o tk : tk \in HeaderTokens}
    \cup (IF held.issued THEN HeaderShapes(held.token) ELSE {})

\* The clock may advance between the two reads of one request
ClockReads == {now, IF now < MaxTime THEN now + 1 ELSE now}

JWTAuthRequest(authHeader, t2) ==
    /\ last' = [op |-> "JWTAuth", authHeader |-> authHeader, t1 |-> now, t2 |-> t2,
                resp |-> JWTAuth(authHeader, now, t2)]
    /\ now' = t2
    /\ UNCHANGED <<hours, held, store>>

OptionalJWTAuthRequest(authHeader, t2) ==
    /\ last' = [op |-> "OptionalJWTAuth", authHeader |-> authHeader, t1 |-> now, t2 |-> t2,
                resp |-> OptionalJWTAuth(authHeader, now, t2)]
    /\ now' = t2
    /\ UNCHANGED <<hours, held, store>>

\* The gate runs as the next handler of a middleware that proceeded
RequireRoleRequest(requiredRole) ==
    /\ last.op \in {"JWTAuth", "OptionalJWTAuth"}
    /\ last.resp.next = 1
    /\ last' = [op |-> "RequireRole", requiredRole |-> requiredRole,
                via |-> last.op, authHeader |-> last.authHeader,
                ctx |-> last.resp.ctx,
                resp |-> RequireRole(requiredRole, last.resp.ctx)]
    /\ UNCHANGED <<now, hours, held, store>>

\* ------------------------------------------------------ Credential Hasher
MinPasswordLen == 8
MaxPasswordLen == 72

\* The zero byte; a TLA+ string cannot hold it, the backslash stands for it
NUL == "\\"

\* bcrypt feeds the password to the Blowfish key schedule as the zero-
\* terminated key repeated cyclically, and the schedule reads 72 bytes of it
BlowfishKeyBytes == 72

RECURSIVE Cyclic(_, _)
Cyclic(key, n) == IF Len(key) >= n THEN SubSeq(key, 1, n) ELSE Cyclic(key \o key, n)

KeyStream(password) == Cyclic(password \o NUL, BlowfishKeyBytes)

\* A bcrypt hash verifies exactly the passwords with the key stream of the
\* password it was generated from
WellFormedHash(password) == [wellformed |-> TRUE, of |-> KeyStream(password)]

\* The empty string, which is not a bcrypt hash
NoHash == [wellformed |-> FALSE, of |-> ""]

HashPasswordNoLimit(password) ==
    IF password = "" THEN [err |-> <<"password cannot be empty">>, hash |-> NoHash]
    ELSE [err |-> <<>>, hash |-> WellFormedHash(password)]

HashPassword(password) ==
    IF password = "" THEN [err |-> <<"password cannot be empty">>, hash |-> NoHash]
    ELSE IF Len(password) > MaxPasswordLen
    THEN [err |-> <<"password exceeds maximum length of 32 bytes">>, hash |-> NoHash]
    ELSE [err |-> <<>>, hash |-> WellFormedHash(password)]

CheckPasswordAnyHash(password, hashedPassword) ==
    hashedPassword.wellformed

CheckPassword(password, hashedPassword) ==
    hashedPassword.wellformed /\ hashedPassword.of = KeyStream(password)

\* An error is the chain of its messages, outermost first; err.Error() is
\* the chain joined with ": ", so two errors have the same text exactly when
\* their chains are equal.  <<>> is nil.
ValidatePasswordStrengthOffByOne(password) ==
    IF Len(password) <= MinPasswordLen
    THEN <<"password must be at least 8 characters long">>
    ELSE IF Len(password) > MaxPasswordLen
    THEN <<"password exceeds maximum length of 32 bytes">>
    ELSE <<>>

ValidatePasswordStrength(password) ==
    IF Len(password) < MinPasswordLen
    THEN <<"password must be at least 8 characters long">>
    ELSE IF Len(password) > MaxPasswordLen
    THEN <<"password exceeds maximum length of 32 bytes">>
    ELSE <<>>

\* fmt.Errorf("prefix: %w", err)
Wrap(prefix, err) == <<prefix>> \o err

\* ------------------------------------------------------------ users table
UserExists(username) == \E row \in users : row.username = username

NoUser == [id |-> 0, username |-> "", hashed_password |-> NoHash, role |-> ""]

GetUserByUsername(username) ==
    IF UserExists(username)
    THEN [err |-> <<>>, user |-> CHOOSE row \in users : row.username = username]
    ELSE [err |-> <<"username not found">>, user |-> NoUser]

GetUserByID(userId) ==
    IF \E row \in users : row.id = userId
    THEN [err |-> <<>>, user |-> CHOOSE row \in users : row.id = userId]
    ELSE [err |-> <<"user not found">>, user |-> NoUser]

CreateUserNoUnique(user) ==
    [err |-> <<>>,
     user |-> [user EXCEPT !.id = nextId],
     users |-> users \cup {[user EXCEPT !.id = nextId]}]

\* INSERT INTO users ... RETURNING user_id, under username UNIQUE
CreateUser(user) ==
    IF \E row \in users : row.username = user.username
    THEN [err |-> <<"failed to create user", "duplicate key value violates unique constraint">>,
          user |-> user, users |-> users]
    ELSE [err |-> <<>>,
          user |-> [user EXCEPT !.id = nextId],
          users |-> users \cup {[user EXCEPT !.id = nextId]}]

\* ----------------------------------------------------------- registration
\* AuthService.Register up to and including the existence check
RegisterCheck(username, password) ==
    LET weak == ValidatePasswordStrength(password) IN
    IF weak # <<>> THEN Wrap("invalid password", weak)
    ELSE IF UserExists(username) THEN <<"username already exists">>
    ELSE LET hashed == HashPassword(password) IN
         IF hashed.err # <<>> THEN Wrap("failed to hash password", hashed.err)
         ELSE <<>>

NewUserFirstIsAdmin(username, password) ==
    [id |-> 0, username |-> username,
     hashed_password |-> HashPassword(password).hash,
     role |-> IF users = {} THEN "admin" ELSE "user"]

NewUser(username, password) ==
    [id |-> 0, username |-> username,
     hashed_password |-> HashPassword(password).hash, role |-> "user"]

\* AuthService.Register from the insert on
RegisterInsert(username, password) ==
    LET created == CreateUser(NewUser(username, password)) IN
    IF created.err # <<>>
    THEN [err |-> Wrap("failed to create user", created.err), users |-> users]
    ELSE [err |-> <<>>, users |-> created.users]

RequiredFieldsMissing(req) ==
    req.username = "" \/ req.password = "" \/ req.first_name = "" \/ req.last_name = ""

\* Handler.Register: the status for an error of AuthService.Register
RegisterStatus(err) ==
    IF err = <<>> THEN 201
    ELSE IF err = <<"username already exists">> THEN 409
    ELSE IF err = <<"password must be at least 8 characters long">> THEN 400
    ELSE 500

RegisterRequests ==
    [username : {"alice", "bob", ""},
     password : {"password123", "pass123", ""},
     first_name : {"A", ""},
     last_name : {"Z"}]

\* POST /api/register up to the existence check; the call stays in progress
\* only when the insert is still to come
RegisterBegin(p, req) ==
    /\ inflight[p].pc = "idle"
    /\ nextId <= MaxId
    /\ IF RequiredFieldsMissing(req)
       THEN /\ last' = [op |-> "Register", proc |-> p, req |-> req, status |-> 400,
                        takenAtCheck |-> UserExists(req.username),
                        takenAtInsert |-> FALSE, created |-> FALSE]
            /\ UNCHANGED inflight
       ELSE IF RegisterCheck(req.username, req.password) # <<>>
       THEN /\ last' = [op |-> "Register", proc |-> p, req |-> req,
                        status |-> RegisterStatus(RegisterCheck(req.username, req.password)),
                        takenAtCheck |-> UserExists(req.username),
                        takenAtInsert |-> FALSE, created |-> FALSE]
            /\ UNCHANGED inflight
       ELSE /\ inflight' = [inflight EXCEPT ![p] = [pc |-> "insert", req |-> req]]
            /\ last' = [op |-> "RegisterCheck", proc |-> p, req |-> req]
    /\ UNCHANGED <<now, hours, held, users, nextId, board>>

\* POST /api/register from the insert to the response
RegisterEnd(p) ==
    /\ inflight[p].pc = "insert"
    /\ LET req == inflight[p].req
           res == RegisterInsert(req.username, req.password) IN
       /\ users' = res.users
       /\ last' = [op |-> "Register", proc |-> p, req |-> req,
                   status |-> RegisterStatus(res.err),
                   takenAtCheck |-> FALSE,
                   takenAtInsert |-> UserExists(req.username),
                   created |-> res.users # users]
    /\ nextId' = nextId + 1
    /\ inflight' = [inflight EXCEPT ![p] = IdleCall]
    /\ UNCHANGED <<now, hours, held, board>>

Next ==
    \/ Tick
    \/ \E username \in Usernames, role \in Roles : CreateTokenCall(username, role)
    \/ \E tokenString \in PresentedStrings : ValidateTokenCall(tokenString)
    \/ \E tokenString \in PresentedStrings : ParseTokenCall(tokenString)

Spec == Init /\ [][Next]_vars

NextPipeline ==
    \/ Tick
    \/ \E username \in Usernames, role \in Roles : CreateTokenCall(username, role)
    \/ \E authHeader \in Headers, t2 \in ClockReads : JWTAuthRequest(authHeader, t2)
    \/ \E authHeader \in Headers, t2 \in ClockReads : OptionalJWTAuthRequest(authHeader, t2)
    \/ \E requiredRole \in GateRoles : RequireRoleRequest(requiredRole)

SpecPipeline == Init /\ [][NextPipeline]_vars

NextRegister ==
    \/ \E p \in Procs, req \in RegisterRequests : RegisterBegin(p, req)
    \/ \E p \in Procs : RegisterEnd(p)

SpecRegister == Init /\ [][NextRegister]_vars

TypeOK ==
    /\ now \in 0..MaxTime
    /\ hours \in 1..MaxHours

\* =================================================================== claims
\* Vocabulary of the claims
IsJwtString(str) == Len(str) = 1 /\ str[1].kind = "jwt"

\* The signature segment decodes to the HMAC, under the shared secret and
\* the algorithm the header names, of the token's own header and claims
CorrectlySigned(str) ==
    /\ IsJwtString(str)
    /\ str[1].header.alg \in HMACAlgs
    /\ str[1].sig.decodable
    /\ str[1].sig.mac.key = SecretKey
    /\ str[1].sig.mac.alg = str[1].header.alg
    /\ str[1].sig.mac.header = str[1].header
    /\ str[1].sig.mac.claims = str[1].claims

CodecCall == last.op \in {"ValidateToken", "ParseToken"}
CodecAccepted ==
    \/ last.op = "ValidateToken" /\ last.err = "nil"
    \/ last.op = "ParseToken" /\ last.res.err = "nil"
PresentedHeld == held.issued /\ CodecCall /\ last.tokenString = held.token
Lifetime == Hours(hours)

\* C2 (as stated): every token string that differs from a created token in
\* its header, claims or signature segment is rejected by ValidateToken and
\* by ParseToken.
C2_AnyMutationRejected ==
    (held.issued /\ CodecCall
     /\ last.tokenString \in {<<x>> : x \in Mutations(held.token[1]) \cup Forgeries(held.token[1])})
    => ~CodecAccepted

\* C2 (amended): a token string that differs from a created token in its
\* header segment or claims segment, or whose signature segment fails to
\* decode or decodes to other bytes, is rejected by ValidateToken and by
\* ParseToken; only another spelling of the same signature bytes is accepted.
C2_TamperingRejected ==
    (held.issued /\ CodecCall /\ IsJwtString(last.tokenString)
     /\ last.tokenString[1] \in Mutations(held.token[1]) \cup Forgeries(held.token[1])
     /\ (\/ last.tokenString[1].header # held.token[1].header
         \/ last.tokenString[1].claims # held.token[1].claims
         \/ ~last.tokenString[1].sig.decodable
         \/ last.tokenString[1].sig.mac # held.token[1].sig.mac))
    => ~CodecAccepted

\* C2 witness: a copy of a live created token with a changed role is rejected
C2_Witness ==
    /\ held.issued /\ last.op = "ValidateToken"
    /\ IsJwtString(last.tokenString)
    /\ last.tokenString[1] \in ClaimsMutations(held.token[1])
    /\ last.tokenString[1].claims.role # held.role
    /\ last.at < Sec(held.token[1].claims.exp)
    /\ last.err = "jwt.ErrSignatureInvalid"

\* C3: a token created for a non-empty username passes ValidateToken at the
\* time of its creation and ParseToken returns that username and role.
C3_CreateRoundTrip ==
    (PresentedHeld /\ last.at = held.at /\ held.username # "")
    => /\ last.op = "ValidateToken" => last.err = "nil"
       /\ last.op = "ParseToken" =>
            /\ last.res.err = "nil"
            /\ last.res.claims.username = held.username
            /\ last.res.claims.role = held.role

C3_Witness ==
    /\ PresentedHeld /\ last.op = "ParseToken"
    /\ last.at = held.at /\ held.at % TicksPerSec # 0
    /\ held.username = "alice" /\ held.role = "admin"
    /\ last.res.claims.role = "admin"

\* C4: a token created at T with lifetime L fails ValidateToken with the
\* Expired error at T + L + 1s and passes ValidateToken at T + L - 1s.
C4_LifetimeWindow ==
    (PresentedHeld /\ last.op = "ValidateToken")
    => /\ last.at = held.at + Lifetime + Sec(1) => last.err = "ErrExpiredToken"
       /\ last.at = held.at + Lifetime - Sec(1) => last.err = "nil"

C4_Witness ==
    /\ PresentedHeld /\ last.op = "ValidateToken"
    /\ held.at % TicksPerSec # 0
    /\ last.at = held.at + Lifetime + Sec(1)
    /\ last.err = "ErrExpiredToken"

\* C5 (as stated): a correctly signed token passes ValidateToken whenever
\* not-before <= now <= expires-at, and fails with Expired exactly when
\* now > expires-at.
C5_InclusiveExpiry ==
    (last.op = "ValidateToken" /\ CorrectlySigned(last.tokenString))
    => LET claims == last.tokenString[1].claims IN
       /\ (Sec(claims.nbf) <= last.at /\ last.at <= Sec(claims.exp)) => last.err = "nil"
       /\ last.err = "ErrExpiredToken" <=> last.at > Sec(claims.exp)

\* C5 (amended): a correctly signed token passes ValidateToken exactly when
\* not-before <= now < expires-at (expires-at itself excluded), and fails
\* with Expired exactly when now >= expires-at.
C5_ExclusiveExpiry ==
    (last.op = "ValidateToken" /\ CorrectlySigned(last.tokenString))
    => LET claims == last.tokenString[1].claims IN
       /\ last.err = "nil" <=> (Sec(claims.nbf) <= last.at /\ last.at < Sec(claims.exp))
       /\ last.err = "ErrExpiredToken" <=> last.at >= Sec(claims.exp)

\* C5 witness: ValidateToken at now = expires-at answers Expired
C5_Witness ==
    /\ PresentedHeld /\ last.op = "ValidateToken"
    /\ last.at = Sec(held.token[1].claims.exp)
    /\ last.err = "ErrExpiredToken"

\* C6: ValidateToken and ParseToken accept a token only if its header
\* names HS512.
C6_OnlyHS512 ==
    (CodecCall /\ CodecAccepted) => last.tokenString[1].header.alg = "HS512"

\* The error kinds of the claims, for the errors ValidateToken returns
KindOf(err) ==
    CASE err = "ErrExpiredToken" -> "Expired"
      [] err = "jwt.ErrSignatureInvalid" -> "InvalidSignature"
      [] err = "ErrInvalidToken" -> "Invalid"
      [] OTHER -> "none"

\* C7 (as stated): a failure of ValidateToken is Malformed when the string
\* has no token structure, InvalidSignature when the algorithm is wrong or
\* the signature does not match, Expired when now > expires-at, and Invalid
\* in the remaining cases.
C7_StatedKind(str, t) ==
    IF ~IsJwtString(str) \/ ~str[1].sig.decodable THEN "Malformed"
    ELSE IF ~CorrectlySigned(str) THEN "InvalidSignature"
    ELSE IF t > Sec(str[1].claims.exp) THEN "Expired"
    ELSE "Invalid"

C7_CodeKind(str, t) ==
    IF CorrectlySigned(str)
    THEN IF t >= Sec(str[1].claims.exp) THEN "Expired" ELSE "Invalid"
    ELSE IF IsJwtString(str) /\ str[1].header.alg \in HMACAlgs /\ str[1].sig.decodable
    THEN "InvalidSignature"
    ELSE "Invalid"

Authenticates(authHeader, t1, t2) ==
    /\ authHeader # <<>>
    /\ extractBearerToken(authHeader).err = "nil"
    /\ ValidateToken(extractBearerToken(authHeader).token, t1) = "nil"
    /\ ParseToken(extractBearerToken(authHeader).token, t2).err = "nil"

BearerClaims(authHeader) == extractBearerToken(authHeader).token[1].claims

\* C1: JWTAuth invokes the next handler exactly when the request carries a
\* header with a bearer token that passes ValidateToken and ParseToken, then
\* with the token's username and role in the context; otherwise it answers
\* 401 and does not invoke the next handler.
C1_RequiredMode ==
    last.op = "JWTAuth"
    => LET ok == Authenticates(last.authHeader, last.t1, last.t2) IN
       /\ last.resp.next = 1 <=> ok
       /\ ok => /\ DOMAIN last.resp.ctx = {"username", "role"}
                /\ last.resp.ctx["username"] = BearerClaims(last.authHeader).username
                /\ last.resp.ctx["role"] = BearerClaims(last.authHeader).role
       /\ ~ok => last.resp.status = 401 /\ last.resp.next = 0

C1_Witness ==
    /\ last.op = "JWTAuth" /\ held.issued
    /\ last.authHeader = <<BearerWord, SP>> \o held.token
    /\ last.resp.next = 1
    /\ last.resp.ctx = WithIdentity("alice", "admin")

\* C9: OptionalJWTAuth always invokes the next handler exactly once; it
\* attaches an identity exactly when JWTAuth accepts the same request, with
\* the same username and role, and attaches nothing when JWTAuth answers 401.
C9_OptionalMode ==
    last.op = "OptionalJWTAuth"
    => LET required == JWTAuth(last.authHeader, last.t1, last.t2) IN
       /\ last.resp.next = 1
       /\ required.next = 1 =>
            /\ DOMAIN last.resp.ctx = {"username", "role"}
            /\ last.resp.ctx = required.ctx
       /\ required.status = 401 => DOMAIN last.resp.ctx = {}
       /\ required.next = 1 \/ required.status = 401

\* C9 witness: header "Authorization: Bearer" proceeds without identity
C9_Witness ==
    /\ last.op = "OptionalJWTAuth"
    /\ last.authHeader = <<BearerWord>>
    /\ JWTAuth(last.authHeader, last.t1, last.t2).status = 401
    /\ last.resp.next = 1
    /\ DOMAIN last.resp.ctx = {}

\* C10: RequireRole invokes the next handler exactly when the context
\* carries a role equal to the required role; otherwise it answers 403 and
\* does not invoke the next handler.
C10_RequireRole ==
    last.op = "RequireRole"
    => LET ok == "role" \in DOMAIN last.ctx /\ last.ctx["role"] = last.requiredRole IN
       /\ last.resp.next = 1 <=> ok
       /\ ~ok => last.resp.status = 403 /\ last.resp.next = 0

\* C10 witness: a context with role "user" is refused at the "admin" gate
C10_Witness ==
    /\ last.op = "RequireRole"
    /\ last.requiredRole = "admin"
    /\ "role" \in DOMAIN last.ctx /\ last.ctx["role"] = "user"
    /\ last.resp.status = 403 /\ last.resp.next = 0

\* ------------------------------------------------------------ registration
\* A Register call that got as far as the service with a request the handler
\* and the password policy let through
WellFormedRegister ==
    /\ last.op = "Register"
    /\ ~RequiredFieldsMissing(last.req)
    /\ ValidatePasswordStrength(last.req.password) = <<>>

\* C18: in every reachable state no two stored users share a username,
\* whatever the interleaving of concurrent Register calls, also when two
\* registrations of one new username both pass the existence check before
\* either inserts.
C18_UniqueUsernames ==
    \A a, b \in users : a.username = b.username => a = b

\* Two registrations of one username were past the check together and both
\* inserts have run
C18_Witness ==
    /\ WellFormedRegister
    /\ ~last.takenAtCheck /\ last.takenAtInsert
    /\ \E row \in users : row.username = last.req.username
    /\ \A p \in Procs : inflight[p].pc = "idle"

\* C19 (as stated): a registration whose username is already taken, at the
\* existence check or by the time of the insert, is answered 409 and creates
\* no user.
C19_TakenAnswered409 ==
    WellFormedRegister /\ (last.takenAtCheck \/ last.takenAtInsert)
        => last.status = 409 /\ ~last.created

\* C20 (as stated): a registration whose password is shorter than 8
\* characters is answered 400 and creates no user.
C20_ShortPassword400 ==
    last.op = "Register" /\ Len(last.req.password) < MinPasswordLen
        => last.status = 400 /\ ~last.created

\* ============================================================ admin routes
AdminRouteRoleFirst(authHeader, t1, t2) ==
    LET gate == RequireRole("admin", EmptyContext) IN
    IF gate.next = 0 THEN gate ELSE JWTAuth(authHeader, t1, t2)

\* The /api/admin group: JWTAuth, then RequireRole("admin"), then the handler
AdminRoute(authHeader, t1, t2) ==
    LET auth == JWTAuth(authHeader, t1, t2) IN
    IF auth.next = 0 THEN auth ELSE RequireRole("admin", auth.ctx)

AdminRequest(authHeader, t2) ==
    /\ last' = [op |-> "AdminRoute", authHeader |-> authHeader, t1 |-> now, t2 |-> t2,
                resp |-> AdminRoute(authHeader, now, t2)]
    /\ now' = t2
    /\ UNCHANGED <<hours, held, store>>

NextAdmin ==
    \/ Tick
    \/ \E u \in Usernames, r \in Roles : CreateTokenCall(u, r)
    \/ \E h \in Headers, t2 \in ClockReads : AdminRequest(h, t2)

SpecAdmin == Init /\ [][NextAdmin]_vars

\* C11: on an admin-gated route authentication runs before the role check:
\* a request with a missing or invalid token is answered 401 (never 403), a
\* request with a valid token of role "user" is answered 403, and the
\* handler is reached only with a valid token of role "admin".
C11_AuthBeforeRole ==
    last.op = "AdminRoute"
    => LET ok == Authenticates(last.authHeader, last.t1, last.t2) IN
       /\ ~ok => last.resp.status = 401 /\ last.resp.next = 0
       /\ (ok /\ BearerClaims(last.authHeader).role = "user")
            => last.resp.status = 403 /\ last.resp.next = 0
       /\ last.resp.next = 1 => ok /\ BearerClaims(last.authHeader).role = "admin"

\* C11 witness: a live token of role "user" is stopped by the gate with 403
C11_Witness ==
    /\ last.op = "AdminRoute" /\ held.issued /\ held.role = "user"
    /\ last.authHeader = <<BearerWord, SP>> \o held.token
    /\ last.resp.status = 403 /\ last.resp.next = 0

\* ===================================================== rejection responses
\* C12 (as stated): any two requests that JWTAuth rejects receive the same
\* status and the same body, whichever check failed.
C12_SingleRejection ==
    (last.op = "JWTAuth" /\ last.resp.next = 0)
    => \A authHeader \in Headers, t2 \in ClockReads :
         LET other == JWTAuth(authHeader, now, t2) IN
         other.next = 0
            => other.status = last.resp.status /\ other.body = last.resp.body

\* ======================================================== identity context
\* C14 (as stated): a context that holds an explicit empty role can be told
\* apart from a context with no identity by its readers: GetRole or
\* RequireRole gives a different result for the two.
C14_AbsentDistinguishable ==
    (last.op = "RequireRole" /\ "role" \in DOMAIN last.ctx /\ last.ctx["role"] = "")
    => \/ GetRole(last.ctx) # GetRole(EmptyContext)
       \/ last.resp # RequireRole(last.requiredRole, EmptyContext)

\* ======================================================= header extraction
\* Header strings: every sequence of at most MaxHdrLen atoms
HeaderAtoms == {BearerWord, LowerBearerWord, SP, TAB, Word("tok")}

AllHeaders == UNION {[1..n -> HeaderAtoms] : n \in 0..MaxHdrLen}

InitHeader ==
    /\ now = 0
    /\ hours = 1
    /\ held = NoToken
    /\ last \in {[op |-> "header", authHeader |-> h] : h \in AllHeaders}
    /\ users = {}
    /\ nextId = 1
    /\ inflight = [p \in Procs |-> IdleCall]
    /\ board = EmptyBoard

extractBearerTokenCall ==
    /\ last.op = "header"
    /\ last' = [op |-> "extractBearerToken", authHeader |-> last.authHeader,
                res |-> extractBearerToken(last.authHeader)]
    /\ UNCHANGED <<now, hours, held, store>>

\* len(authHeader): the atoms' texts laid end to end
RECURSIVE ByteLen(_)
ByteLen(str) == IF str = <<>> THEN 0 ELSE Len(Head(str).text) + ByteLen(Tail(str))

bearerPrefix == <<BearerWord, SP>>

\* auth.ExtractTokenFromHeader
ExtractTokenFromHeader(authHeader) ==
    IF ByteLen(authHeader) < ByteLen(bearerPrefix)
    THEN [err |-> "invalid authoirization header format", token |-> <<>>]
    ELSE IF ~(Len(authHeader) >= 2 /\ SubSeq(authHeader, 1, 2) = bearerPrefix)
    THEN [err |-> "authorization header must start with 'Bearer '", token |-> <<>>]
    ELSE IF SubSeq(authHeader, 3, Len(authHeader)) = <<>>
    THEN [err |-> "token is empty", token |-> <<>>]
    ELSE [err |-> "nil", token |-> SubSeq(authHeader, 3, Len(authHeader))]

ExtractTokenFromHeaderCall ==
    /\ last.op = "header"
    /\ last' = [op |-> "ExtractTokenFromHeader", authHeader |-> last.authHeader,
                res |-> ExtractTokenFromHeader(last.authHeader)]
    /\ UNCHANGED <<now, hours, held, store>>

NextHeader ==
    \/ extractBearerTokenCall
    \/ ExtractTokenFromHeaderCall

SpecHeader == InitHeader /\ [][NextHeader]_vars

Least(S) == CHOOSE i \in S : \A j \in S : i <= j
Greatest(S) == CHOOSE i \in S : \A j \in S : j <= i

\* C15: extractBearerToken splits the header at its first space only; the
\* part before it must be exactly "Bearer"; the part after it, with the
\* surrounding whitespace trimmed, is the token; a header with no space,
\* another scheme or an empty trimmed remainder is an error.
C15_HeaderRule ==
    last.op = "extractBearerToken"
    => LET h == last.authHeader
           spaces == {i \in 1..Len(h) : h[i] = SP}
           failed == [err |-> "ErrInvalidToken", token |-> <<>>]
       IN IF spaces = {} THEN last.res = failed
          ELSE LET scheme == SubSeq(h, 1, Least(spaces) - 1)
                   rest == SubSeq(h, Least(spaces) + 1, Len(h))
                   inked == {j \in 1..Len(rest) : rest[j].kind # "space"}
               IN IF scheme # <<BearerWord>> \/ inked = {}
                  THEN last.res = failed
                  ELSE /\ last.res.err = "nil"
                       /\ last.res.token = SubSeq(rest, Least(inked), Greatest(inked))

\* C15 witness: only the first space separates; the tab and the second
\* space around the token are trimmed
C15_Witness ==
    /\ last.op = "extractBearerToken"
    /\ last.authHeader = <<BearerWord, SP, TAB, Word("tok"), SP>>
    /\ last.res = [err |-> "nil", token |-> <<Word("tok")>>]

\* ================================================================ accounts
UpdateUser(user) ==
    IF \E row \in users : row.id = user.id
    THEN [err |-> <<>>, users |-> {IF row.id = user.id THEN user ELSE row : row \in users}]
    ELSE [err |-> <<"user not found">>, users |-> users]

DeleteUser(userId) ==
    IF \E row \in users : row.id = userId
    THEN [err |-> <<>>, users |-> {row \in users : row.id # userId}]
    ELSE [err |-> <<"user not found">>, users |-> users]

\* FOREIGN KEY ... ON DELETE CASCADE: the posts and comments of a deleted
\* user, and the comments on the deleted posts, go with the user
DeleteCascade(userId) ==
    LET posts == {post \in board.posts : post.user_id # userId} IN
    [board EXCEPT
       !.posts = posts,
       !.comments = {comment \in board.comments :
                       /\ comment.user_id # userId
                       /\ \E post \in posts : post.post_id = comment.post_id}]

LoginRevealingUser(username, password, t) ==
    LET found == GetUserByUsername(username) IN
    IF found.err # <<>> THEN [err |-> found.err, token |-> <<>>]
    ELSE IF ~CheckPassword(password, found.user.hashed_password)
    THEN [err |-> <<"invalid credentials">>, token |-> <<>>]
    ELSE [err |-> <<>>,
          token |-> CreateToken(found.user.username, found.user.role, t, hours)]

LoginNoPasswordCheck(username, password, t) ==
    LET found == GetUserByUsername(username) IN
    IF found.err # <<>> THEN [err |-> <<"invalid credentials">>, token |-> <<>>]
    ELSE [err |-> <<>>,
          token |-> CreateToken(found.user.username, found.user.role, t, hours)]

\* AuthService.Login at clock reading t
Login(username, password, t) ==
    LET found == GetUserByUsername(username) IN
    IF found.err # <<>> THEN [err |-> <<"invalid credentials">>, token |-> <<>>]
    ELSE IF ~CheckPassword(password, found.user.hashed_password)
    THEN [err |-> <<"invalid credentials">>, token |-> <<>>]
    ELSE [err |-> <<>>,
          token |-> CreateToken(found.user.username, found.user.role, t, hours)]

\* AuthService.ChangePassword up to the update: the row it is about to write
ChangePasswordCheck(userId, oldPass, newPass) ==
    LET found == GetUserByID(userId) IN
    IF found.err # <<>>
    THEN [err |-> Wrap("failed to get user", found.err), user |-> NoUser]
    ELSE IF ~CheckPassword(oldPass, found.user.hashed_password)
    THEN [err |-> <<"invalid current password">>, user |-> NoUser]
    ELSE IF ValidatePasswordStrength(newPass) # <<>>
    THEN [err |-> ValidatePasswordStrength(newPass), user |-> NoUser]
    ELSE IF HashPassword(newPass).err # <<>>
    THEN [err |-> Wrap("failed to hash password", HashPassword(newPass).err), user |-> NoUser]
    ELSE [err |-> <<>>,
          user |-> [found.user EXCEPT !.hashed_password = HashPassword(newPass).hash]]

\* AuthService.ChangePassword from the update on, writing the row read before
ChangePasswordUpdate(user) ==
    IF UpdateUser(user).err # <<>>
    THEN [err |-> Wrap("failed to update password", UpdateUser(user).err), users |-> users]
    ELSE UpdateUser(user)

\* AuthService.ChangePassword, run without interruption
ChangePassword(userId, oldPass, newPass) ==
    LET checked == ChangePasswordCheck(userId, oldPass, newPass) IN
    IF checked.err # <<>>
    THEN [err |-> checked.err, users |-> users]
    ELSE ChangePasswordUpdate(checked.user)

NoSummary == [user_id |-> 0, username |-> "", role |-> ""]
UserSummary(user) == [user_id |-> user.id, username |-> user.username, role |-> user.role]

GetCurrentUserNoRole(ctx) ==
    IF GetUsername(ctx) = ""
    THEN [status |-> 401, body |-> "Not authenticated", user |-> NoSummary]
    ELSE IF GetUserByUsername(GetUsername(ctx)).err # <<>>
    THEN [status |-> 500, body |-> "Failed to get current user", user |-> NoSummary]
    ELSE [status |-> 200, body |-> "",
          user |-> [UserSummary(GetUserByUsername(GetUsername(ctx)).user) EXCEPT !.role = ""]]

\* Handler.GetCurrentUser, given the context the middleware built
GetCurrentUser(ctx) ==
    IF GetUsername(ctx) = ""
    THEN [status |-> 401, body |-> "Not authenticated", user |-> NoSummary]
    ELSE IF GetUserByUsername(GetUsername(ctx)).err # <<>>
    THEN [status |-> 500, body |-> "Failed to get current user", user |-> NoSummary]
    ELSE [status |-> 200, body |-> "",
          user |-> UserSummary(GetUserByUsername(GetUsername(ctx)).user)]

ProtectedRouteRevoking(authHeader, t1, t2) ==
    LET auth == JWTAuth(authHeader, t1, t2) IN
    IF auth.next = 0 \/ ~UserExists(GetUsername(auth.ctx))
    THEN [auth |-> Rejected(401, "Unauthorized: Invalid or expired token"),
          resp |-> [status |-> 401, body |-> "Unauthorized: Invalid or expired token",
                    user |-> NoSummary]]
    ELSE [auth |-> auth, resp |-> GetCurrentUser(auth.ctx)]

\* GET /api/auth/me: JWTAuth, then Handler.GetCurrentUser
ProtectedRoute(authHeader, t1, t2) ==
    LET auth == JWTAuth(authHeader, t1, t2) IN
    IF auth.next = 0
    THEN [auth |-> auth,
          resp |-> [status |-> auth.status, body |-> auth.body, user |-> NoSummary]]
    ELSE [auth |-> auth, resp |-> GetCurrentUser(auth.ctx)]

\* Handler.Login at clock reading t: the response, and the error the
\* service returned to the handler
LoginResponse(username, password, t) ==
    IF username = "" \/ password = ""
    THEN [status |-> 400, body |-> "Username and password are required",
          err |-> <<>>, token |-> <<>>, user |-> NoSummary]
    ELSE IF Login(username, password, t).err # <<>>
    THEN [status |-> 401, body |-> "Invalid username or password",
          err |-> Login(username, password, t).err, token |-> <<>>, user |-> NoSummary]
    ELSE [status |-> 200, body |-> "", err |-> <<>>,
          token |-> Login(username, password, t).token,
          user |-> UserSummary(GetUserByUsername(username).user)]

AccountUsernames == {"alice", "bob", ""}
AccountPasswords == {"password123", "hunter2hunter2", "pass123", ""}
AccountRequests ==
    [username : {"alice"}, password : {"password123", "pass123"},
     first_name : {"A"}, last_name : {"Z"}]
ChangeablePasswords == {"password123", "hunter2hunter2"}
StoredRoles == {"user", "admin"}

\* POST /api/login; the client keeps the first token it is given
LoginRequest(username, password) ==
    /\ now <= MaxCreate
    /\ LET resp == LoginResponse(username, password, now)
           status == resp.status
           token == resp.token
       IN /\ last' = [op |-> "Login", username |-> username, password |-> password,
                      at |-> now, status |-> status, body |-> resp.body,
                      err |-> resp.err, token |-> token, user |-> resp.user]
          /\ held' = IF status = 200 /\ ~held.issued
                     THEN [issued |-> TRUE, token |-> token,
                           username |-> token[1].claims.username,
                           role |-> token[1].claims.role, at |-> now]
                     ELSE held
    /\ UNCHANGED <<now, hours, store>>

ChangePasswordCall(userId, oldPass, newPass) ==
    /\ users' = ChangePassword(userId, oldPass, newPass).users
    /\ last' = [op |-> "ChangePassword", userId |-> userId,
                err |-> ChangePassword(userId, oldPass, newPass).err]
    /\ UNCHANGED <<now, hours, held, nextId, inflight, board>>

\* A role change made in the database
UpdateRoleCall(userId, role) ==
    /\ GetUserByID(userId).err = <<>>
    /\ users' = UpdateUser([GetUserByID(userId).user EXCEPT !.role = role]).users
    /\ last' = [op |-> "UpdateUser", userId |-> userId]
    /\ UNCHANGED <<now, hours, held, nextId, inflight, board>>

DeleteUserCall(userId) ==
    /\ users' = DeleteUser(userId).users
    /\ last' = [op |-> "DeleteUser", userId |-> userId, err |-> DeleteUser(userId).err]
    /\ board' = DeleteCascade(userId)
    /\ UNCHANGED <<now, hours, held, nextId, inflight>>

\* Authorization headers of the client: none, or its token as bearer token
AccountHeaders ==
    {<<>>} \cup (IF held.issued THEN {<<BearerWord, SP>> \o held.token} ELSE {})

ProtectedRequest(authHeader, t2) ==
    /\ last' = [op |-> "GetCurrentUser", authHeader |-> authHeader, t1 |-> now, t2 |-> t2,
                auth |-> ProtectedRoute(authHeader, now, t2).auth,
                resp |-> ProtectedRoute(authHeader, now, t2).resp]
    /\ now' = t2
    /\ UNCHANGED <<hours, held, store>>

NextAccounts ==
    \/ Tick
    \/ \E req \in AccountRequests : RegisterBegin(1, req)
    \/ RegisterEnd(1)
    \/ \E username \in AccountUsernames, password \in AccountPasswords :
         LoginRequest(username, password)
    \/ \E userId \in 1..MaxId, oldPass, newPass \in ChangeablePasswords :
         ChangePasswordCall(userId, oldPass, newPass)
    \/ \E userId \in 1..MaxId, role \in StoredRoles : UpdateRoleCall(userId, role)
    \/ \E userId \in 1..MaxId : DeleteUserCall(userId)
    \/ \E authHeader \in AccountHeaders, t2 \in ClockReads : ProtectedRequest(authHeader, t2)
    \/ \E authHeader \in AccountHeaders, t2 \in ClockReads : AdminRequest(authHeader, t2)

SpecAccounts == Init /\ [][NextAccounts]_vars

\* The client presents the token it holds on a route behind JWTAuth
PresentsHeld ==
    /\ last.op \in {"GetCurrentUser", "AdminRoute"}
    /\ held.issued
    /\ last.authHeader = <<BearerWord, SP>> \o held.token

StoredAs(username, password) ==
    {row \in users : row.username = username
                     /\ row.hashed_password = WellFormedHash(password)}

\* C16: Login returns a token only when a user with the given username is
\* stored and the given password verifies against that user's stored hash;
\* the token carries exactly the stored username and role of that user; in
\* every other case no token is produced.
C16_LoginToken ==
    last.op = "Login"
    => /\ last.token # <<>> <=> StoredAs(last.username, last.password) # {}
       /\ last.token # <<>> =>
            \E row \in StoredAs(last.username, last.password) :
               /\ ParseToken(last.token, last.at).err = "nil"
               /\ ParseToken(last.token, last.at).claims.username = row.username
               /\ ParseToken(last.token, last.at).claims.role = row.role

\* C16 witness: a login after the stored role became "admin" returns a
\* token of role "admin"
C16_Witness ==
    /\ last.op = "Login" /\ last.status = 200
    /\ last.username = "alice" /\ last.password = "hunter2hunter2"
    /\ last.token[1].claims.role = "admin"

\* C17: after registering "alice" with "password123", a login with these
\* credentials returns a token; a request to a protected resource with that
\* token succeeds and identifies "alice" with role "user"; the same token
\* presented after the configured lifetime has elapsed is rejected.
C17_EndToEnd ==
    LET registered == \E row \in StoredAs("alice", "password123") : row.role = "user" IN
    /\ (last.op = "Login" /\ last.username = "alice" /\ last.password = "password123"
        /\ registered)
       => last.status = 200 /\ last.token # <<>>
    /\ (PresentsHeld /\ last.op = "GetCurrentUser" /\ registered
        /\ held.username = "alice" /\ held.role = "user"
        /\ last.t2 < Sec(held.token[1].claims.exp))
       => /\ last.resp.status = 200
          /\ last.resp.user.username = "alice"
          /\ last.resp.user.role = "user"
    /\ (PresentsHeld /\ last.op = "GetCurrentUser" /\ last.t1 >= held.at + Lifetime)
       => last.resp.status = 401

\* C17 witness: the token alice was given at login is rejected once the
\* lifetime has elapsed, alice still being registered
C17_Witness ==
    /\ PresentsHeld /\ last.op = "GetCurrentUser"
    /\ StoredAs("alice", "password123") # {}
    /\ held.username = "alice" /\ held.role = "user"
    /\ last.t1 >= held.at + Lifetime
    /\ last.resp.status = 401

\* C13: an issued token is accepted by JWTAuth, with the username and role
\* it was issued with, at every time before its expiry, whatever happened
\* to the stored user since; the admin gate decides on the token's role.
C13_NoRevocation ==
    (PresentsHeld /\ last.t2 < Sec(held.token[1].claims.exp))
    => /\ last.op = "GetCurrentUser" =>
            /\ last.auth.next = 1
            /\ last.auth.ctx = WithIdentity(held.username, held.role)
       /\ last.op = "AdminRoute" =>
            /\ last.resp.next = 1 <=> held.role = "admin"
            /\ last.resp.next = 1 => last.resp.ctx = WithIdentity(held.username, "admin")
            /\ last.resp.next = 0 => last.resp.status = 403

\* C13 witness: a token of role "admin" passes the admin gate after its
\* user has been deleted
C13_Witness ==
    /\ PresentsHeld /\ last.op = "AdminRoute"
    /\ held.role = "admin" /\ users = {}
    /\ last.t1 > held.at
    /\ last.resp.next = 1

\* ============================================================ claim times
\* C22: every token built by CreateToken, for a configured lifetime of any
\* whole number of hours >= 1, has issued-at <= not-before <= expires-at
\* and expires-at = issued-at + the configured lifetime (in seconds).
C22_ClaimTimes ==
    (held.issued /\ last.op = "CreateToken")
    => LET claims == held.token[1].claims IN
       /\ claims.iat <= claims.nbf
       /\ claims.nbf <= claims.exp
       /\ claims.exp = claims.iat + hours * SecondsPerHour

\* C22 witness: a token created between two full seconds with a lifetime of
\* more than one hour
C22_Witness ==
    /\ held.issued /\ last.op = "CreateToken"
    /\ held.at % TicksPerSec # 0
    /\ hours > 1
    /\ held.token[1].claims.exp = held.token[1].claims.nbf + hours * SecondsPerHour

\* C30 (as stated): ExtractTokenFromHeader and extractBearerToken fail on
\* exactly the same headers and, where they succeed, return the same token.
C30_ExtractorsAgree ==
    last.op = "ExtractTokenFromHeader"
    => LET other == extractBearerToken(last.authHeader) IN
       /\ last.res.err = "nil" <=> other.err = "nil"
       /\ last.res.err = "nil" => last.res.token = other.token

\* ======================================================= credential hasher
RECURSIVE Repeat(_, _)
Repeat(c, n) == IF n = 0 THEN "" ELSE c \o Repeat(c, n - 1)

\* Secrets: runs of one letter of every length up to MaxSecretLen, and every
\* string of up to three bytes over two letters and the zero byte
Secrets ==
    {Repeat(c, n) : c \in {"a", "b"}, n \in 0..MaxSecretLen}
    \cup {x \o y \o z : x \in {"", "a", "b", NUL}, y \in {"", "a", "b", NUL},
                        z \in {"", "a", "b", NUL}}

InitHasher ==
    /\ now = 0
    /\ hours = 1
    /\ held = NoToken
    /\ last \in {[op |-> "secret", password |-> password] : password \in Secrets}
    /\ users = {}
    /\ nextId = 1
    /\ inflight = [p \in Procs |-> IdleCall]
    /\ board = EmptyBoard

HashPasswordCall ==
    /\ last.op = "secret"
    /\ last' = [op |-> "HashPassword", password |-> last.password,
                res |-> HashPassword(last.password)]
    /\ UNCHANGED <<now, hours, held, store>>

ValidatePasswordStrengthCall ==
    /\ last.op = "secret"
    /\ last' = [op |-> "ValidatePasswordStrength", password |-> last.password,
                err |-> ValidatePasswordStrength(last.password)]
    /\ UNCHANGED <<now, hours, held, store>>

\* CheckPassword of any secret against a hash HashPassword returned
CheckPasswordCall(password) ==
    /\ last.op = "HashPassword"
    /\ last.res.err = <<>>
    /\ last' = [op |-> "CheckPassword", password |-> password,
                otherSecret |-> last.password,
                res |-> CheckPassword(password, last.res.hash)]
    /\ UNCHANGED <<now, hours, held, store>>

NextHasher ==
    \/ HashPasswordCall
    \/ ValidatePasswordStrengthCall
    \/ \E password \in Secrets : CheckPasswordCall(password)

SpecHasher == InitHasher /\ [][NextHasher]_vars

\* C23: HashPassword fails with the EmptySecret error for a secret of length
\* 0, fails with the SecretTooLong error for a secret longer than 72 bytes,
\* and returns a hash for every secret of 1 to 72 bytes.
C23_HashPassword ==
    last.op = "HashPassword"
    => /\ Len(last.password) = 0 => last.res.err = <<"password cannot be empty">>
       /\ Len(last.password) > 72
            => last.res.err = <<"password exceeds maximum length of 32 bytes">>
       /\ (1 <= Len(last.password) /\ Len(last.password) <= 72)
            => last.res.err = <<>> /\ last.res.hash.wellformed
       /\ last.res.err # <<>> => last.res.hash = NoHash

C23_Witness ==
    /\ last.op = "HashPassword"
    /\ Len(last.password) = 73
    /\ last.res.err = <<"password exceeds maximum length of 32 bytes">>

\* C24: ValidatePasswordStrength succeeds for every secret of 8 to 72 bytes,
\* fails for every secret shorter than 8 bytes, and fails with SecretTooLong
\* for every secret longer than 72 bytes.
C24_ValidateStrength ==
    last.op = "ValidatePasswordStrength"
    => /\ (8 <= Len(last.password) /\ Len(last.password) <= 72) => last.err = <<>>
       /\ Len(last.password) < 8 => last.err # <<>>
       /\ Len(last.password) > 72
            => last.err = <<"password exceeds maximum length of 32 bytes">>

C24_Witness ==
    /\ last.op = "ValidatePasswordStrength"
    /\ Len(last.password) = 8
    /\ last.err = <<>>

RECURSIVE HasNUL(_)
HasNUL(secret) ==
    /\ secret # ""
    /\ \/ SubSeq(secret, 1, 1) = NUL
       \/ HasNUL(SubSeq(secret, 2, Len(secret)))

NextSelfService ==
    \/ \E req \in RegisterRequests : RegisterBegin(1, req)
    \/ RegisterEnd(1)
    \/ \E username \in AccountUsernames, password \in AccountPasswords :
         LoginRequest(username, password)
    \/ \E userId \in 1..MaxId, oldPass, newPass \in ChangeablePasswords :
         ChangePasswordCall(userId, oldPass, newPass)

SpecSelfService == Init /\ [][NextSelfService]_vars

\* C21: every user record created by Register has role "user"; after any
\* sequence of Register, Login and ChangePassword calls no stored account
\* has another role.
C21_RegisteredRole ==
    /\ \A row \in users : row.role = "user"
    /\ (last.op = "Register" /\ last.created)
         => \E row \in users : row.username = last.req.username /\ row.role = "user"
    /\ (last.op = "Login" /\ last.status = 200) => last.user.role = "user"

\* C21 witness: two registered accounts, one with a changed password, both
\* with role "user"
C21_Witness ==
    /\ last.op = "ChangePassword" /\ last.err = <<>>
    /\ \E a, b \in users :
         /\ a.id # b.id
         /\ a.hashed_password = WellFormedHash("hunter2hunter2")
         /\ a.role = "user" /\ b.role = "user"

\* ============================================================ failed login
\* C26: a failed login gets the same response whether the username is
\* unknown or the password is wrong: the same service error, the same
\* status and the same body.
C26_FailedLoginOpaque ==
    (last.op = "Login" /\ last.err # <<>>)
    => \A username \in AccountUsernames, password \in AccountPasswords :
         LET other == LoginResponse(username, password, last.at) IN
         other.err # <<>>
            => /\ other.err = last.err
               /\ other.status = last.status
               /\ other.body = last.body

\* C26 witness: a wrong password for a stored user is refused while a login
\* for an unknown user would be refused too
C26_Witness ==
    /\ last.op = "Login" /\ last.err # <<>>
    /\ UserExists(last.username)
    /\ ~UserExists("bob")
    /\ LoginResponse("bob", last.password, last.at).status = 401
    /\ last.status = 401

\* ================================================ concurrent ChangePassword
ChangePasswords == {"password123", "hunter2hunter2", "correcthorse1"}

\* ChangePassword up to the update; the call stays in progress only when
\* the update is still to come
ChangePasswordBegin(p, userId, oldPass, newPass) ==
    /\ inflight[p].pc = "idle"
    /\ LET checked == ChangePasswordCheck(userId, oldPass, newPass)
           stored == GetUserByID(userId).user
       IN IF checked.err # <<>>
          THEN /\ last' = [op |-> "ChangePasswordDone", proc |-> p, userId |-> userId,
                           oldPass |-> oldPass, newPass |-> newPass,
                           err |-> checked.err, before |-> stored, after |-> stored]
               /\ UNCHANGED inflight
          ELSE /\ inflight' = [inflight EXCEPT ![p] =
                                 [pc |-> "update", userId |-> userId, oldPass |-> oldPass,
                                  newPass |-> newPass, user |-> checked.user]]
               /\ last' = [op |-> "ChangePasswordCheck", proc |-> p, userId |-> userId]
    /\ UNCHANGED <<now, hours, held, users, nextId, board>>

\* ChangePassword from the update to its return; before and after are the
\* user's row in the table just before and just after the statement
ChangePasswordEnd(p) ==
    /\ inflight[p].pc = "update"
    /\ LET call == inflight[p]
           res == ChangePasswordUpdate(call.user)
       IN /\ users' = res.users
          /\ last' = [op |-> "ChangePasswordDone", proc |-> p, userId |-> call.userId,
                      oldPass |-> call.oldPass, newPass |-> call.newPass,
                      err |-> res.err,
                      before |-> GetUserByID(call.userId).user,
                      after |-> IF \E row \in res.users : row.id = call.userId
                                THEN CHOOSE row \in res.users : row.id = call.userId
                                ELSE NoUser]
    /\ inflight' = [inflight EXCEPT ![p] = IdleCall]
    /\ UNCHANGED <<now, hours, held, nextId, board>>

NextChangePassword ==
    \/ \E req \in AccountRequests : RegisterBegin(1, req)
    \/ RegisterEnd(1)
    \/ \E p \in Procs, userId \in 1..MaxId, oldPass, newPass \in ChangePasswords :
         ChangePasswordBegin(p, userId, oldPass, newPass)
    \/ \E p \in Procs : ChangePasswordEnd(p)

SpecChangePassword == Init /\ [][NextChangePassword]_vars

\* C27 (as stated): ChangePassword replaces the stored hash only if the old
\* password verifies against the hash stored at the moment the replacement
\* is written and the new password passes ValidatePasswordStrength; a
\* failing call leaves the record unchanged; a successful one leaves
\* username and role unchanged; under any interleaving of concurrent calls.
C27_ChangeGuarded ==
    last.op = "ChangePasswordDone"
    => /\ last.err # <<>> => last.after = last.before
       /\ last.err = <<>> =>
            /\ CheckPassword(last.oldPass, last.before.hashed_password)
            /\ ValidatePasswordStrength(last.newPass) = <<>>
            /\ last.after.username = last.before.username
            /\ last.after.role = last.before.role

\* =================================================================== board
\* A path parameter: strconv.Atoi succeeds on the decimal ones
PathInt(n) == [numeric |-> TRUE, n |-> n]
PathWord == [numeric |-> FALSE, n |-> 0]

NoPost == [post_id |-> 0, user_id |-> 0, title |-> "", content |-> "", author |-> ""]
NoComment == [comment_id |-> 0, user_id |-> 0, post_id |-> 0, content |-> "", author |-> ""]

\* DB.GetPostById; dbOk is whether the query reaches the database and scans
GetPostById(postId, dbOk) ==
    IF ~dbOk
    THEN [err |-> <<"failed to query post with that id", "driver error">>,
          found |-> FALSE, post |-> NoPost]
    ELSE IF \E post \in board.posts : post.post_id = postId
    THEN [err |-> <<>>, found |-> TRUE,
          post |-> CHOOSE post \in board.posts : post.post_id = postId]
    ELSE [err |-> <<"post not found">>, found |-> FALSE, post |-> NoPost]

\* DB.GetCommentById; on an error the returned pointer is nil (found = FALSE)
GetCommentById(commentId, dbOk) ==
    IF ~dbOk
    THEN [err |-> <<"failed to query comments", "driver error">>,
          found |-> FALSE, comment |-> NoComment]
    ELSE IF \E comment \in board.comments : comment.comment_id = commentId
    THEN [err |-> <<>>, found |-> TRUE,
          comment |-> CHOOSE comment \in board.comments : comment.comment_id = commentId]
    ELSE [err |-> <<"comment not found">>, found |-> FALSE, comment |-> NoComment]

\* The write statements of the repository
dbCreatePost(post) ==
    [board EXCEPT !.posts = @ \cup {[post EXCEPT !.post_id = board.nextPostId]},
                  !.nextPostId = @ + 1]

dbUpdatePost(post) ==
    [board EXCEPT !.posts = {IF row.post_id = post.post_id
                             THEN [row EXCEPT !.title = post.title, !.content = post.content]
                             ELSE row : row \in @}]

dbDeletePost(postId) ==
    [board EXCEPT !.posts = {row \in @ : row.post_id # postId},
                  !.comments = {row \in @ : row.post_id # postId}]

dbCreateComment(comment, postId) ==
    [board EXCEPT !.comments = @ \cup {[comment EXCEPT !.comment_id = board.nextCommentId,
                                                      !.post_id = postId]},
                  !.nextCommentId = @ + 1]

dbUpdateComment(comment) ==
    [board EXCEPT !.comments = {IF row.comment_id = comment.comment_id
                                THEN [row EXCEPT !.content = comment.content]
                                ELSE row : row \in @}]

dbDeleteComment(commentId) ==
    [board EXCEPT !.comments = {row \in @ : row.comment_id # commentId}]

\* What a handler leaves behind: the response it wrote and the tables; a
\* handler that panics writes no response of its own (status 0), whatever
\* the recovery middleware around the router then sends
Answer(status, body) == [status |-> status, body |-> body, panic |-> FALSE, board |-> board]
Done(status, newBoard) == [status |-> status, body |-> "", panic |-> FALSE, board |-> newBoard]
Panic == [status |-> 0, body |-> "", panic |-> TRUE, board |-> board]

\* POST /api/posts
CreatePost(ctx, title, content, writeOk) ==
    IF GetUsername(ctx) = "" THEN Answer(401, "Not authenticated")
    ELSE LET found == GetUserByUsername(GetUsername(ctx)) IN
    IF found.err # <<>> THEN Answer(500, "failed to get user info")
    ELSE IF title = "" \/ content = "" THEN Answer(400, "Title and content are required")
    ELSE IF ~writeOk THEN Answer(500, "Failed to create post")
    ELSE Done(201, dbCreatePost([post_id |-> 0, user_id |-> found.user.id, title |-> title,
                                 content |-> content, author |-> found.user.username]))

UpdatePostAnyUser(ctx, postId, title, content, dbOk, writeOk) ==
    IF GetUsername(ctx) = "" THEN Answer(401, "Not authenticated")
    ELSE LET found == GetUserByUsername(GetUsername(ctx)) IN
    IF found.err # <<>> THEN Answer(500, "failed to get user")
    ELSE IF ~postId.numeric THEN Answer(400, "Invalid ID format")
    ELSE LET existing == GetPostById(postId.n, dbOk) IN
    IF existing.err = <<"post not found">> THEN Answer(404, "Post not found")
    ELSE IF existing.err # <<>> THEN Answer(500, "Failed to get post")
    ELSE IF title = "" \/ content = "" THEN Answer(400, "Title and content are required")
    ELSE IF ~writeOk THEN Answer(500, "Failed to update post")
    ELSE Done(200, dbUpdatePost([existing.post EXCEPT !.title = title, !.content = content]))

\* PUT /api/posts/{postId}
UpdatePost(ctx, postId, title, content, dbOk, writeOk) ==
    IF GetUsername(ctx) = "" THEN Answer(401, "Not authenticated")
    ELSE LET found == GetUserByUsername(GetUsername(ctx)) IN
    IF found.err # <<>> THEN Answer(500, "failed to get user")
    ELSE IF ~postId.numeric THEN Answer(400, "Invalid ID format")
    ELSE LET existing == GetPostById(postId.n, dbOk) IN
    IF existing.err = <<"post not found">> THEN Answer(404, "Post not found")
    ELSE IF existing.err # <<>> THEN Answer(500, "Failed to get post")
    ELSE IF existing.post.user_id # found.user.id
    THEN Answer(403, "You can only update your own posts")
    ELSE IF title = "" \/ content = "" THEN Answer(400, "Title and content are required")
    ELSE IF ~writeOk THEN Answer(500, "Failed to update post")
    ELSE Done(200, dbUpdatePost([existing.post EXCEPT !.title = title, !.content = content]))

\* DELETE /api/posts/{postId}
DeletePost(ctx, postId, dbOk, writeOk) ==
    IF GetUsername(ctx) = "" THEN Answer(401, "Not authenticated")
    ELSE LET found == GetUserByUsername(GetUsername(ctx)) IN
    IF found.err # <<>> THEN Answer(500, "Failed to get user")
    ELSE IF ~postId.numeric THEN Answer(400, "Invalid ID format")
    ELSE LET existing == GetPostById(postId.n, dbOk) IN
    IF existing.err = <<"post not found">> THEN Answer(404, "Post not found")
    ELSE IF existing.err # <<>> THEN Answer(500, "Failed to get post")
    ELSE IF existing.post.user_id # found.user.id /\ found.user.role # "admin"
    THEN Answer(403, "You can only delete your own posts")
    ELSE IF ~writeOk THEN Answer(500, "Failed to delete post")
    ELSE Done(200, dbDeletePost(postId.n))

\* POST /api/post/{postId}/comments
CreateComment(ctx, postId, content, dbOk, writeOk) ==
    IF ~postId.numeric THEN Answer(400, "Invalid post ID")
    ELSE IF GetUsername(ctx) = "" THEN Answer(401, "Unauthorized user")
    ELSE LET found == GetUserByUsername(GetUsername(ctx)) IN
    IF found.err # <<>> THEN Answer(500, "Failed to get user info")
    ELSE LET existing == GetPostById(postId.n, dbOk) IN
    IF existing.err = <<"post not found">> THEN Answer(404, "Post not found")
    ELSE IF existing.err # <<>> THEN Answer(500, "Failed to verify post existence")
    ELSE IF content = "" THEN Answer(400, "Content is required")
    ELSE IF ~writeOk THEN Answer(500, "Failed to create comment")
    ELSE Done(201, dbCreateComment([comment_id |-> 0, user_id |-> found.user.id, post_id |-> 0,
                                    content |-> content, author |-> found.user.username],
                                   postId.n))

\* PUT /api/comments/{commentId}
UpdateComment(ctx, commentId, content, dbOk, writeOk) ==
    IF GetUsername(ctx) = "" THEN Answer(401, "Not authenticated")
    ELSE LET found == GetUserByUsername(GetUsername(ctx)) IN
    IF found.err # <<>> THEN Answer(500, "Failed to get user info")
    ELSE IF ~commentId.numeric THEN Answer(400, "Invalid Comment ID")
    ELSE LET existing == GetCommentById(commentId.n, dbOk) IN
    IF existing.err = <<"comment not found">> THEN Answer(404, "Comment not found")
    ELSE IF existing.err # <<>> THEN Answer(500, "Failed to get comment")
    ELSE IF existing.comment.user_id # found.user.id
    THEN Answer(403, "You can only update comments you own")
    ELSE IF content = "" THEN Answer(400, "Content is required")
    ELSE IF ~writeOk THEN Answer(500, "Failed to update comment")
    ELSE Done(200, dbUpdateComment([existing.comment EXCEPT !.content = content]))

\* DELETE /api/comments/{commentId}: a lookup error other than "comment not
\* found" is not answered, and the nil comment is dereferenced next
DeleteComment(ctx, commentId, dbOk, writeOk) ==
    IF GetUsername(ctx) = "" THEN Answer(401, "Unauthorized user")
    ELSE LET found == GetUserByUsername(GetUsername(ctx)) IN
    IF found.err # <<>> THEN Answer(500, "Failed to get user info")
    ELSE IF ~commentId.numeric THEN Answer(400, "Invalid comment ID format")
    ELSE LET existing == GetCommentById(commentId.n, dbOk) IN
    IF existing.err = <<"comment not found">> THEN Answer(404, "Comment not found")
    ELSE IF ~existing.found THEN Panic
    ELSE IF existing.comment.user_id # found.user.id /\ found.user.role # "admin"
    THEN Answer(403, "You can only delete your comments")
    ELSE IF ~writeOk THEN Answer(500, "You can only delete your own comments")
    ELSE Done(200, dbDeleteComment(existing.comment.comment_id))

\* ------------------------------------------------------------ board requests
MaxPosts == 1
MaxComments == 1

\* The identities JWTAuth can attach to a request: alice, whose token was
\* minted while she was an admin, carol, whose token was minted before she
\* became one, dave, whose account is gone, and no identity at all
BoardContexts ==
    {EmptyContext, WithIdentity("alice", "admin"), WithIdentity("carol", "user"),
     WithIdentity("dave", "user")}

BoardUsers ==
    {[id |-> 1, username |-> "alice", hashed_password |-> WellFormedHash("password123"),
      role |-> "user"],
     [id |-> 2, username |-> "carol", hashed_password |-> WellFormedHash("password123"),
      role |-> "admin"]}

\* What the database does with a request: everything, or it fails the
\* lookup, or it fails the write
DbOutcomes == {"ok", "lookup fails", "write fails"}
LookupOk(db) == db # "lookup fails"
WriteOk(db) == db # "write fails"

InitBoard ==
    /\ now = 0
    /\ hours = 1
    /\ held = NoToken
    /\ last = Idle
    /\ users = BoardUsers
    /\ nextId = 3
    /\ inflight = [p \in Procs |-> IdleCall]
    /\ board = EmptyBoard

PostPaths == {PathInt(n) : n \in 1..MaxPosts} \cup {PathWord}
CommentPaths == {PathInt(n) : n \in 1..MaxComments} \cup {PathWord}
CreateBodies == {[title |-> "first", content |-> "text"], [title |-> "", content |-> ""]}
UpdateBodies == {[title |-> "second", content |-> "edit"], [title |-> "second", content |-> ""]}

\* The requests are served one after the other: the record of the previous
\* one is dropped before the next is taken
BoardRequest(op, ctx, path, body, dbOk, writeOk, resp) ==
    /\ last = Idle
    /\ board' = resp.board
    /\ last' = [op |-> op, ctx |-> ctx, path |-> path, body |-> body, dbOk |-> dbOk,
                writeOk |-> writeOk, status |-> resp.status, panic |-> resp.panic,
                before |-> board]
    /\ UNCHANGED <<now, hours, held, users, nextId, inflight>>

CreatePostCall ==
    /\ board.nextPostId <= MaxPosts
    /\ \E ctx \in BoardContexts, body \in CreateBodies, db \in DbOutcomes \ {"lookup fails"} :
         BoardRequest("CreatePost", ctx, PathWord, body, TRUE, WriteOk(db),
                      CreatePost(ctx, body.title, body.content, WriteOk(db)))

UpdatePostCall ==
    \E ctx \in BoardContexts, path \in PostPaths, body \in UpdateBodies, db \in DbOutcomes :
      BoardRequest("UpdatePost", ctx, path, body, LookupOk(db), WriteOk(db),
                   UpdatePost(ctx, path, body.title, body.content, LookupOk(db), WriteOk(db)))

DeletePostCall ==
    \E ctx \in BoardContexts, path \in PostPaths, db \in DbOutcomes :
      BoardRequest("DeletePost", ctx, path, [title |-> "", content |-> ""],
                   LookupOk(db), WriteOk(db), DeletePost(ctx, path, LookupOk(db), WriteOk(db)))

CreateCommentCall ==
    /\ board.nextCommentId <= MaxComments
    /\ \E ctx \in BoardContexts, path \in PostPaths, body \in CreateBodies, db \in DbOutcomes :
         BoardRequest("CreateComment", ctx, path, body, LookupOk(db), WriteOk(db),
                      CreateComment(ctx, path, body.content, LookupOk(db), WriteOk(db)))

UpdateCommentCall ==
    \E ctx \in BoardContexts, path \in CommentPaths, body \in UpdateBodies, db \in DbOutcomes :
      BoardRequest("UpdateComment", ctx, path, body, LookupOk(db), WriteOk(db),
                   UpdateComment(ctx, path, body.content, LookupOk(db), WriteOk(db)))

DeleteCommentCall ==
    \E ctx \in BoardContexts, path \in CommentPaths, db \in DbOutcomes :
      BoardRequest("DeleteComment", ctx, path, [title |-> "", content |-> ""],
                   LookupOk(db), WriteOk(db),
                   DeleteComment(ctx, path, LookupOk(db), WriteOk(db)))

BoardRequestServed ==
    /\ last # Idle
    /\ last' = Idle
    /\ UNCHANGED <<now, hours, held, users, nextId, inflight, board>>

NextBoard ==
    \/ BoardRequestServed
    \/ CreatePostCall
    \/ UpdatePostCall
    \/ DeletePostCall
    \/ CreateCommentCall
    \/ UpdateCommentCall
    \/ DeleteCommentCall

SpecBoard == InitBoard /\ [][NextBoard]_vars

\* ------------------------------------------------------------ board claims
UpdateOps == {"UpdatePost", "UpdateComment"}
DeleteOps == {"DeletePost", "DeleteComment"}

\* The stored user a recorded request is authenticated as, if any
Requester(r) == GetUserByUsername(GetUsername(r.ctx))
IsStoredUser(r) == GetUsername(r.ctx) # "" /\ Requester(r).err = <<>>

\* The rows a recorded request addresses, in the tables it started from
TargetPosts(r) ==
    {post \in r.before.posts :
       r.op \in {"UpdatePost", "DeletePost"} /\ r.path.numeric /\ post.post_id = r.path.n}
TargetComments(r) ==
    {comment \in r.before.comments :
       r.op \in {"UpdateComment", "DeleteComment"} /\ r.path.numeric
       /\ comment.comment_id = r.path.n}
TargetOwners(r) ==
    {post.user_id : post \in TargetPosts(r)} \cup
    {comment.user_id : comment \in TargetComments(r)}

Owns(r, row) == IsStoredUser(r) /\ Requester(r).user.id = row.user_id
IsStoredAdmin(r) == IsStoredUser(r) /\ Requester(r).user.role = "admin"

\* Rows of the starting tables the request edited or removed
EditedPosts(r) ==
    {post \in r.before.posts :
       \E row \in board.posts : /\ row.post_id = post.post_id
                                /\ <<row.title, row.content>> # <<post.title, post.content>>}
EditedComments(r) ==
    {comment \in r.before.comments :
       \E row \in board.comments : /\ row.comment_id = comment.comment_id
                                   /\ row.content # comment.content}
RemovedPosts(r) ==
    {post \in r.before.posts : \A row \in board.posts : row.post_id # post.post_id}
RemovedComments(r) ==
    {comment \in r.before.comments :
       \A row \in board.comments : row.comment_id # comment.comment_id}

\* The DeleteComment request got as far as the lookup, and the lookup failed
DeleteCommentLookupFailed(r) ==
    /\ r.op = "DeleteComment"
    /\ IsStoredUser(r)
    /\ r.path.numeric
    /\ ~r.dbOk \/ TargetComments(r) = {}

\* C28: whenever the comment lookup in DeleteComment fails, for whatever
\* reason, the handler answers with an error response, deletes nothing and
\* does not crash on the missing comment
C28_LookupFailureAnswered ==
    DeleteCommentLookupFailed(last) =>
        /\ ~last.panic
        /\ last.status \in 400..599
        /\ board = last.before

\* The request is authenticated as someone allowed to do what it asks
Entitled(r) ==
    /\ TargetPosts(r) \cup TargetComments(r) # {}
    /\ \A row \in TargetPosts(r) \cup TargetComments(r) :
         Owns(r, row) \/ (r.op \in DeleteOps /\ IsStoredAdmin(r))

\* C29: a post or comment is edited only by a request authenticated as its
\* owner and deleted only by one authenticated as its owner or as a stored
\* admin; every other update or delete request is answered 403 and changes
\* nothing in the store
C29_OwnerOrForbidden ==
    last.op \in UpdateOps \cup DeleteOps =>
        /\ \A row \in EditedPosts(last) \cup EditedComments(last) : Owns(last, row)
        /\ \A row \in RemovedPosts(last) \cup RemovedComments(last) :
             Owns(last, row) \/ IsStoredAdmin(last)
        /\ ~Entitled(last) => last.status = 403 /\ board = last.before

\* C29 as amended: edits only by the owner, deletions only by the owner or a
\* stored admin, except that the comments on a deleted post go with it; a
\* stored user who is not entitled and whose target was found is answered
\* 403; a request not answered 200 changes nothing
C29_OwnerGuarded ==
    last.op \in UpdateOps \cup DeleteOps =>
        /\ \A row \in EditedPosts(last) \cup EditedComments(last) : Owns(last, row)
        /\ \A row \in RemovedPosts(last) : Owns(last, row) \/ IsStoredAdmin(last)
        /\ \A row \in RemovedComments(last) :
             \/ Owns(last, row)
             \/ IsStoredAdmin(last)
             \/ \E post \in RemovedPosts(last) : post.post_id = row.post_id
        /\ (/\ IsStoredUser(last)
            /\ last.dbOk
            /\ TargetPosts(last) \cup TargetComments(last) # {}
            /\ ~Entitled(last)) => last.status = 403
        /\ last.status # 200 => board = last.before

\* alice, whose token says admin but whose stored role is user, was refused
\* the deletion of carol's post
C29_Witness ==
    /\ last.op = "DeletePost"
    /\ last.ctx = WithIdentity("alice", "admin")
    /\ TargetOwners(last) = {2}
    /\ last.status = 403
    /\ board = last.before

====
